---- MODULE Spec2Model ----
(***************************************************************************)
(* Model of the PETSc vector / data-transfer layer of OpenMDAO:            *)
(*   openmdao/core/petscimpl.py      PetscImpl, PetscSrcVecWrapper,        *)
(*                                   PetscDataXfer                         *)
(*   openmdao/components/paramcomp.py  ParamComp.apply_linear              *)
(*                                                                         *)
(* Four specifications share this module, each driving one group of        *)
(* variables and holding the others fixed:                                 *)
(*   Spec        PetscDataXfer.__init__ and PetscDataXfer.transfer         *)
(*   SpecVec     PetscSrcVecWrapper.setup / get_global_idxs on every rank  *)
(*   SpecSizes   PetscSrcVecWrapper._get_flattened_sizes (Allgather) and   *)
(*               PetscImpl.create_app_ordering on every rank               *)
(*   SpecLinear  ParamComp.apply_linear                                    *)
(*                                                                         *)
(* Buffers are functions over 0-based index ranges (numpy arrays); index   *)
(* arrays are sequences of 0-based indices.                                *)
(***************************************************************************)
EXTENDS Integers, Sequences, FiniteSets, TLC

\* ------------------------------------------------------------------ bounds
\* length of the unknowns (source) buffer
USize == 2
\* length of the params (target) buffer
PSize == 2
\* buffer elements range over 0..MaxVal
MaxVal == 1
\* index arrays handed to PetscDataXfer have at most MaxConns entries
MaxConns == 2
\* number of processes in the communicator
NRanks == 2
\* number of declared variables of the unknowns vector
NVars == 2
\* a variable's local size on one rank is at most MaxSize
MaxSize == 1
\* length of the parent buffers the component's tangent views look into
BufLen == 2
\* apply_linear is called at most MaxCalls times in a run
MaxCalls == 2

Vals == 0..MaxVal

\* ------------------------------------------------------------- variables
VARIABLES
    \* --- Spec: data transfer
    xfer,       \* the PetscDataXfer object: state "unbuilt" | "built" | "failed"
    srcvec,     \* source vecwrapper: [vec, noflat]
    tgtvec,     \* target vecwrapper: [vec, noflat]
    raised,     \* exception raised by the last call, "none" if it returned
    last,       \* the last call: "none" | "init" | "fwd" | "rev"
    prev,       \* the call before the last one
    pre,        \* [src, tgt]: the two vecwrappers before the last call
    pre2,       \* [src, tgt]: the two vecwrappers before the call before
    \* --- SpecVec, SpecSizes: the unknowns vecwrapper on every rank
    varmeta,    \* rank -> (variable -> [size, noflat]), variables in declared order
    vecs,       \* rank -> the PetscSrcVecWrapper after setup: [vardict, slices, vec]
    call,       \* the last get_global_idxs call: [rank, name, raised, idxs]
    \* --- SpecSizes
    pc,         \* rank -> "idle" | "gathering" | "sized" | "ordered"
    ours,       \* rank -> the row the rank computed
    comm,       \* rank -> the send buffer the rank handed to Allgather, or <<>>
    local_unknown_sizes,  \* rank -> the rank's size table (rank -> column -> size)
    app_ordering, \* rank -> [app, petsc], the index arrays given to AO.createBasic
    \* --- SpecLinear: the five vecwrapper views handed to ParamComp.apply_linear,
    \* each [buf, lo, hi]: the parent buffer and the component's slice lo..hi-1
    params,
    unknowns,
    dparams,
    dunknowns,
    dresids,
    lmode,      \* mode of the last apply_linear call, "none" before the first
    calls       \* number of apply_linear calls made

xferVars == <<xfer, srcvec, tgtvec, raised, last, prev, pre, pre2>>
vecVars == <<varmeta, vecs, call>>
sizesVars == <<pc, ours, comm, local_unknown_sizes, app_ordering>>

linVars == <<params, unknowns, dparams, dunknowns, dresids, lmode, calls>>

vars == <<xferVars, vecVars, sizesVars, linVars>>

\* ------------------------------------------------------------- helpers
\* numpy.arange(start, end) as an index array
RECURSIVE make_idx_array(_, _)
make_idx_array(start, end) ==
    IF start >= end THEN <<>> ELSE <<start>> \o make_idx_array(start + 1, end)

Range(s) == {s[k] : k \in DOMAIN s}

SeqsUpTo(S, n) == UNION {[1..m -> S] : m \in 0..n}

Injective(s) == \A j, k \in DOMAIN s : s[j] = s[k] => j = k

\* sum of f[0] .. f[n-1]
RECURSIVE SumTo(_, _)
SumTo(f, n) == IF n <= 0 THEN 0 ELSE f[n - 1] + SumTo(f, n - 1)

RECURSIVE Concat(_, _)
\* f[0] \o f[1] \o ... \o f[n-1]
Concat(f, n) == IF n <= 0 THEN <<>> ELSE Concat(f, n - 1) \o f[n - 1]

\* ------------------------------------------------ application ordering
\* A size table is a function rank -> (variable index -> size), both 0-based.
NR(t) == Cardinality(DOMAIN t)
NV(t) == IF NR(t) = 0 THEN 0 ELSE Cardinality(DOMAIN t[0])

\* numpy.sum(t[:nrows, ivar])
ColSum(t, nrows, ivar) == SumTo([r \in 0..(nrows - 1) |-> t[r][ivar]], nrows)
\* numpy.sum(t[:nrows])
SumRows(t, nrows) ==
    SumTo([r \in 0..(nrows - 1) |->
              SumTo([i \in 0..(NV(t) - 1) |-> t[r][i]], NV(t))], nrows)
\* numpy.sum(t[:, :ncols])
SumCols(t, ncols) ==
    SumTo([i \in 0..(ncols - 1) |-> ColSum(t, NR(t), i)], ncols)

\* the canonical (PETSc) side: this rank's contiguous block
to_idx_array(t, rank) == make_idx_array(SumRows(t, rank), SumRows(t, rank + 1))

AppStartNoRankOffset(t, rank, ivar) == SumCols(t, ivar)
\* start of this rank's slice of variable ivar in the variable-major numbering
AppStart(t, rank, ivar) == SumCols(t, ivar) + ColSum(t, rank, ivar)

\* the application side: this rank's slice of every variable, in declared order
app_idxs(t, rank) ==
    Concat([ivar \in 0..(NV(t) - 1) |->
               make_idx_array(AppStart(t, rank, ivar),
                              AppStart(t, rank, ivar) + t[rank][ivar])], NV(t))

\* what create_app_ordering hands to PETSc.AO().createBasic on one rank
create_app_ordering(t, rank) ==
    [app |-> app_idxs(t, rank), petsc |-> to_idx_array(t, rank)]

\* AO.app2petsc on an index array, for an ordering whose pairs are all in ao
\* (an index the ordering does not hold maps to -1)
app2petsc(ao, idxs) ==
    [k \in DOMAIN idxs |->
        IF \E j \in DOMAIN ao.app : ao.app[j] = idxs[k]
        THEN ao.petsc[CHOOSE j \in DOMAIN ao.app : ao.app[j] = idxs[k]]
        ELSE -1]

\* ------------------------------------------------------- data transfer
SrcNoflatNames == {"x", "y"}
TgtNoflatNames == {"p"}
NoflatVals == {"a", "b", "n"}

\* the single-process size table of the unknowns vector the transfer reads
XferSizes == [r \in {0} |-> [i \in {0} |-> USize]]

\* index arrays a caller may pass: in range, or one past the end of the buffer
SrcIdxArrays == SeqsUpTo(0..USize, MaxConns)
TgtIdxArrays == SeqsUpTo(0..PSize, MaxConns)
\* (target name, source name) pairs, each target connected to one source
NoflatConnLists ==
    {c \in SeqsUpTo(TgtNoflatNames \X SrcNoflatNames, Cardinality(TgtNoflatNames)) :
        \A j, k \in DOMAIN c : c[j][1] = c[k][1] => j = k}

\* PETSc.Scatter().create rejects index sets that do not fit the two vectors
ScatterCreateFails(usize, src_idx_set, psize, tgt_idx_set) ==
    \/ Len(src_idx_set) # Len(tgt_idx_set)
    \/ \E k \in DOMAIN src_idx_set : src_idx_set[k] \notin 0..(usize - 1)
    \/ \E k \in DOMAIN tgt_idx_set : tgt_idx_set[k] \notin 0..(psize - 1)

\* the except clause formats its message from system.name; no name `system`
\* is bound in __init__ or in the module, so building the message raises
InitHandlerRaises == "NameError"

\* PetscDataXfer(varmanager, src_idxs, tgt_idxs, flat_conns, noflat_conns)
PetscDataXfer_init ==
    /\ xfer.state = "unbuilt"
    /\ \E src_idxs \in SrcIdxArrays, tgt_idxs \in TgtIdxArrays,
          noflat_conns \in NoflatConnLists :
          LET ao == create_app_ordering(XferSizes, 0)
              src_idx_set == app2petsc(ao, src_idxs)
              args == [src_idxs |-> src_idxs, tgt_idxs |-> tgt_idxs,
                       noflat_conns |-> noflat_conns]
          IN  \/ /\ ~ScatterCreateFails(USize, src_idx_set, PSize, tgt_idxs)
                 /\ xfer' = args @@ [state |-> "built"]
                 /\ raised' = "none"
              \/ /\ ScatterCreateFails(USize, src_idx_set, PSize, tgt_idxs)
                 /\ xfer' = args @@ [state |-> "failed"]
                 /\ raised' = InitHandlerRaises
    /\ last' = "init"
    /\ prev' = last
    /\ pre' = [src |-> srcvec, tgt |-> tgtvec]
    /\ pre2' = pre
    /\ UNCHANGED <<srcvec, tgtvec, vecVars, sizesVars, linVars>>

\* vec[idxs]: the copy numpy's fancy indexing makes
Gather(vec, idxs) == [k \in DOMAIN idxs |-> vec[idxs[k]]]

\* vec[idxs] = vals, element by element in position order
RECURSIVE AssignAt(_, _, _, _)
AssignAt(vec, idxs, vals, n) ==
    IF n = 0 THEN vec
    ELSE [AssignAt(vec, idxs, vals, n - 1) EXCEPT ![idxs[n]] = vals[n]]

RECURSIVE AddAssignAt(_, _, _, _)
AddAssignAt(vec, idxs, vals, n) ==
    IF n = 0 THEN vec
    ELSE [AddAssignAt(vec, idxs, vals, n - 1) EXCEPT ![idxs[n]] = @ + vals[n]]

FwdAssignAccumulate(tvec, svec, sidx, tidx) ==
    AddAssignAt(tvec, tidx, Gather(svec, sidx), Len(tidx))
\* tgtvec.vec[self.tgt_idxs] = srcvec.vec[self.src_idxs]
FwdAssign(tvec, svec, sidx, tidx) ==
    AssignAt(tvec, tidx, Gather(svec, sidx), Len(tidx))

RECURSIVE CopyNoflatsFrom(_, _, _, _)
CopyNoflatsFrom(tnoflat, snoflat, conns, n) ==
    IF n = 0 THEN tnoflat
    ELSE [CopyNoflatsFrom(tnoflat, snoflat, conns, n - 1)
             EXCEPT ![conns[n][1]] = snoflat[conns[n][2]]]

CopyNoflatsSkipped(tnoflat, snoflat, conns) == tnoflat
\* for tgt, src in self.noflat_conns: tgtvec[tgt] = srcvec[src]
CopyNoflats(tnoflat, snoflat, conns) ==
    CopyNoflatsFrom(tnoflat, snoflat, conns, Len(conns))

\* the reverse branch starts by evaluating the name `np`; the module imports
\* numpy under the name `numpy` only, so the lookup raises before any write
RevBranchRaises == "NameError"

TransferModes == {"fwd", "rev"}

\* PetscDataXfer.transfer(srcvec, tgtvec, mode)
transfer ==
    /\ xfer.state = "built"
    /\ \E mode \in TransferModes :
          /\ IF mode = "rev"
             THEN /\ raised' = RevBranchRaises
                  /\ UNCHANGED <<srcvec, tgtvec>>
             ELSE /\ tgtvec' = [vec |-> FwdAssign(tgtvec.vec, srcvec.vec,
                                                  xfer.src_idxs, xfer.tgt_idxs),
                                noflat |-> CopyNoflats(tgtvec.noflat, srcvec.noflat,
                                                       xfer.noflat_conns)]
                  /\ raised' = "none"
                  /\ UNCHANGED srcvec
          /\ last' = mode
    /\ prev' = last
    /\ pre' = [src |-> srcvec, tgt |-> tgtvec]
    /\ pre2' = pre
    /\ UNCHANGED <<xfer, vecVars, sizesVars, linVars>>

NoXfer == [state |-> "unbuilt", src_idxs |-> <<>>, tgt_idxs |-> <<>>,
           noflat_conns |-> <<>>]

\* two vecwrappers set up and filled, no transfer object yet: the source
\* buffer holds any values, the target buffer one value in every element
InitXfer ==
    /\ xfer = NoXfer
    /\ srcvec \in {[vec |-> v, noflat |-> [n \in SrcNoflatNames |->
                                             IF n = "x" THEN "a" ELSE "b"]] :
                      v \in [0..(USize - 1) -> Vals]}
    /\ tgtvec \in {[vec |-> [i \in 0..(PSize - 1) |-> c],
                    noflat |-> [n \in TgtNoflatNames |-> "n"]] : c \in Vals}
    /\ raised = "none"
    /\ last = "none"
    /\ prev = "none"
    /\ pre = [src |-> srcvec, tgt |-> tgtvec]
    /\ pre2 = pre

\* the variables of the other specifications, held fixed
IdleVec == varmeta = <<>> /\ vecs = <<>> /\ call = <<>>
IdleSizes ==
    pc = <<>> /\ ours = <<>> /\ comm = <<>> /\ local_unknown_sizes = <<>>
    /\ app_ordering = <<>>

IdleLinear ==
    /\ params = <<>>
    /\ unknowns = <<>>
    /\ dparams = <<>>
    /\ dunknowns = <<>>
    /\ dresids = <<>>
    /\ lmode = "none"
    /\ calls = 0

Init == InitXfer /\ IdleVec /\ IdleSizes /\ IdleLinear

Next ==
    \/ PetscDataXfer_init
    \/ transfer

Spec == Init /\ [][Next]_vars

\* ------------------------------------------------ properties of Spec
\* sum of tvec[tidx[k]] over the positions k <= n with sidx[k] = s
RECURSIVE Contribution(_, _, _, _, _)
Contribution(tvec, sidx, tidx, s, n) ==
    IF n = 0 THEN 0
    ELSE Contribution(tvec, sidx, tidx, s, n - 1)
         + (IF sidx[n] = s THEN tvec[tidx[n]] ELSE 0)

\* C1: a reverse transfer returns without raising and leaves every source
\* element at its old value plus the sum of the target elements connected to
\* it, repeated source indices included.
C1_ReverseIsAdditive ==
    last = "rev" =>
        /\ raised = "none"
        /\ \A s \in 0..(USize - 1) :
              srcvec.vec[s] = pre.src.vec[s]
                  + Contribution(pre.tgt.vec, xfer.src_idxs, xfer.tgt_idxs, s,
                                 Len(xfer.src_idxs))

\* C2: a forward transfer whose target indices are pairwise distinct leaves
\* tgtvec.vec[tgt_idxs[k]] = srcvec.vec[src_idxs[k]] at every position k,
\* whatever the target held, and changes neither the source vecwrapper, the
\* transfer object's index arrays nor any target element outside tgt_idxs.
C2_ForwardCopyFidelity ==
    [][(xfer.state = "built" /\ last' = "fwd" /\ Injective(xfer.tgt_idxs)) =>
          /\ \A k \in DOMAIN xfer.tgt_idxs :
                tgtvec'.vec[xfer.tgt_idxs[k]] = srcvec.vec[xfer.src_idxs[k]]
          /\ srcvec' = srcvec
          /\ xfer' = xfer
          /\ \A i \in 0..(PSize - 1) :
                i \notin Range(xfer.tgt_idxs) => tgtvec'.vec[i] = tgtvec.vec[i]
      ]_vars

\* C2 witness: a forward transfer through a non-identity one-to-one mapping
\* of two elements has rewritten the target buffer.
C2_Witness ==
    /\ last = "fwd"
    /\ Len(xfer.tgt_idxs) = 2
    /\ Injective(xfer.tgt_idxs)
    /\ xfer.tgt_idxs # xfer.src_idxs
    /\ srcvec.vec[0] # srcvec.vec[1]
    /\ tgtvec.vec # pre.tgt.vec

\* C3: forward then reverse transfer over a one-to-one, non-empty mapping
\* completes and leaves the source value at every connected index equal to
\* its value before the forward transfer.
C3_RoundTrip ==
    (/\ prev = "fwd"
     /\ last = "rev"
     /\ Len(xfer.src_idxs) >= 1
     /\ Injective(xfer.src_idxs)
     /\ Injective(xfer.tgt_idxs)) =>
        /\ raised = "none"
        /\ \A k \in DOMAIN xfer.src_idxs :
              srcvec.vec[xfer.src_idxs[k]] = pre2.src.vec[xfer.src_idxs[k]]

\* C6: when the scatter plan cannot be built for the requested indices, the
\* constructor fails with RuntimeError and no transfer object results.
C6_InitFailsWithRuntimeError ==
    (last = "init" /\ xfer.state # "built") =>
        /\ raised = "RuntimeError"
        /\ xfer.state = "failed"

\* C8: a forward transfer sets the target's entry of every non-flat
\* connection to the source's value of the connected name; a reverse
\* transfer changes no non-flat value of either vecwrapper.
C8_NoflatsForwardOnly ==
    [][/\ (xfer.state = "built" /\ last' = "fwd") =>
              \A k \in DOMAIN xfer.noflat_conns :
                  tgtvec'.noflat[xfer.noflat_conns[k][1]]
                      = srcvec.noflat[xfer.noflat_conns[k][2]]
       /\ (xfer.state = "built" /\ last' = "rev") =>
              /\ srcvec'.noflat = srcvec.noflat
              /\ tgtvec'.noflat = tgtvec.noflat
      ]_vars

\* C8 witness: a forward transfer copied a non-flat value by name and a
\* reverse transfer followed it.
C8_Witness ==
    /\ prev = "fwd"
    /\ last = "rev"
    /\ xfer.noflat_conns = << <<"p", "y">> >>
    /\ tgtvec.noflat["p"] = "b"
    /\ pre2.tgt.noflat["p"] = "n"

\* =====================================================================
\* SpecVec: PetscSrcVecWrapper.get_global_idxs on every rank
\* =====================================================================
Ranks == 0..(NRanks - 1)
Names == 0..(NVars - 1)

\* metadata of the declared variables on every rank: a variable is flattenable
\* or not on all ranks alike, its local size differs from rank to rank, and a
\* non-flattenable variable has size 0
VarMetas ==
    {[r \in Ranks |-> [n \in Names |-> [size |-> IF nf[n] THEN 0 ELSE sz[r][n],
                                        noflat |-> nf[n]]]] :
        nf \in [Names -> BOOLEAN], sz \in [Ranks -> [Names -> 0..MaxSize]]}

\* offset of variable n in the local buffer: the sizes of the flattenable
\* variables declared before it
SliceStart(metas, n) ==
    SumTo([j \in 0..(n - 1) |-> IF metas[j].noflat THEN 0 ELSE metas[j].size], n)

\* SrcVecWrapper.setup(unknowns_dict, store_noflats): the name -> metadata
\* dictionary, the name -> (start, end) slices of the local buffer and the
\* zeroed buffer itself
SrcVecSetup(metas, store_noflats) ==
    LET names == DOMAIN metas
        flat == {n \in names : ~metas[n].noflat}
        total == SliceStart(metas, Cardinality(names))
    IN  [vardict |-> [n \in {m \in names : ~metas[m].noflat \/ store_noflats}
                         |-> metas[n]],
         slices |-> [n \in flat |-> <<SliceStart(metas, n),
                                      SliceStart(metas, n) + metas[n].size>>],
         vec |-> [i \in 0..(total - 1) |-> 0]]

NoflatRefusedInverted(meta) == ~meta.noflat
\* if meta.get('noflat'): raise RuntimeError(...)
NoflatRefused(meta) == meta.noflat

\* what get_global_idxs(name) does on vecwrapper vw: the exception it raises
\* ("none" when it returns) and the index array it returns
get_global_idxs_result(vw, name) ==
    IF name \notin DOMAIN vw.vardict
    THEN [raised |-> "KeyError", idxs |-> <<>>]
    ELSE IF NoflatRefused(vw.vardict[name])
    THEN [raised |-> "RuntimeError", idxs |-> <<>>]
    ELSE IF name \notin DOMAIN vw.slices
    THEN [raised |-> "KeyError", idxs |-> <<>>]
    ELSE [raised |-> "none",
          idxs |-> make_idx_array(vw.slices[name][1], vw.slices[name][2])]

NoCall == [rank |-> -1, name |-> -1, raised |-> "none", idxs |-> <<>>]

\* PetscSrcVecWrapper.get_global_idxs(name) called on one rank
get_global_idxs ==
    /\ \E r \in Ranks, name \in Names :
          call' = [rank |-> r, name |-> name] @@ get_global_idxs_result(vecs[r], name)
    /\ UNCHANGED <<varmeta, vecs, xferVars, sizesVars, linVars>>

IdleXfer ==
    /\ xfer = NoXfer
    /\ srcvec = <<>>
    /\ tgtvec = <<>>
    /\ raised = "none"
    /\ last = "none"
    /\ prev = "none"
    /\ pre = <<>>
    /\ pre2 = <<>>

\* every rank has set up its unknowns vecwrapper
InitVec ==
    /\ varmeta \in VarMetas
    /\ \E store_noflats \in BOOLEAN :
          vecs = [r \in Ranks |-> SrcVecSetup(varmeta[r], store_noflats)]
    /\ call = NoCall
    /\ IdleXfer
    /\ IdleSizes
    /\ IdleLinear

NextVec == get_global_idxs

SpecVec == InitVec /\ [][NextVec]_vars

\* ------------------------------------------------ properties of SpecVec
FlatNames == {n \in Names : ~varmeta[0][n].noflat}
\* length of the distributed vector: every rank's local buffer
TotalSize == SumTo([r \in Ranks |-> Cardinality(DOMAIN vecs[r].vec)], NRanks)
GlobalIdxs(r, n) == Range(get_global_idxs_result(vecs[r], n).idxs)

\* C4: once get_global_idxs is in use, the index sets it returns for two
\* distinct flattenable variables are disjoint, and the sets returned for all
\* flattenable variables on all ranks together are exactly the index range
\* 0 .. TotalSize-1 of the distributed vector.
C4_GlobalIdxsPartition ==
    call # NoCall =>
        /\ \A r \in Ranks : \A n1, n2 \in FlatNames :
              n1 # n2 => GlobalIdxs(r, n1) \cap GlobalIdxs(r, n2) = {}
        /\ UNION {GlobalIdxs(r, n) : r \in Ranks, n \in FlatNames}
              = 0..(TotalSize - 1)

\* C7: get_global_idxs raises for a non-flattenable variable and returns no
\* indices; for a flattenable variable it raises nothing and returns one
\* index per element of the variable; either way the vecwrapper's buffer,
\* slices and dictionary are unchanged.
C7_NoflatHasNoIdxs ==
    [][call' # call =>
          /\ varmeta[call'.rank][call'.name].noflat =>
                call'.raised # "none" /\ call'.idxs = <<>>
          /\ ~varmeta[call'.rank][call'.name].noflat =>
                /\ call'.raised = "none"
                /\ Len(call'.idxs) = varmeta[call'.rank][call'.name].size
                /\ Injective(call'.idxs)
                /\ Range(call'.idxs) \subseteq DOMAIN vecs[call'.rank].vec
          /\ vecs' = vecs
      ]_vars

\* C7 witness: get_global_idxs was called for a stored non-flattenable
\* variable and raised RuntimeError, on a vecwrapper that also holds a
\* flattenable variable with elements.
C7_Witness ==
    /\ call # NoCall
    /\ varmeta[call.rank][call.name].noflat
    /\ call.raised = "RuntimeError"
    /\ Cardinality(DOMAIN vecs[call.rank].vec) > 0

\* =====================================================================
\* SpecSizes: _get_flattened_sizes and create_app_ordering on every rank
\* =====================================================================
\* VecWrapper.get_vecvars(): the metadata of the flattenable variables, in
\* declared order
RECURSIVE VecVarsUpTo(_, _)
VecVarsUpTo(vw, n) ==
    IF n = 0 THEN <<>>
    ELSE VecVarsUpTo(vw, n - 1)
         \o (IF (n - 1) \in DOMAIN vw.vardict /\ ~vw.vardict[n - 1].noflat
             THEN <<vw.vardict[n - 1]>> ELSE <<>>)
get_vecvars(vw) == VecVarsUpTo(vw, NVars)

\* len(sizes), sizes = [m['size'] for m in self.values() if not m.get('noflat')]
NCols(vw) == Cardinality({n \in DOMAIN vw.vardict : ~vw.vardict[n].noflat})

\* numpy.zeros((self.comm.size, len(sizes)), int)
ZerosTable(nranks, ncols) == [r \in 0..(nranks - 1) |-> [i \in 0..(ncols - 1) |-> 0]]

\* ours[0, i] = meta['size'] for i, (name, meta) in enumerate(self.get_vecvars())
OursRow(vw) == [i \in 0..(NCols(vw) - 1) |-> get_vecvars(vw)[i + 1].size]

\* comm.Allgather(sendbuf, recvbuf): row q of the receive buffer becomes the
\* send buffer of rank q
Allgather(recvbuf, sendbufs) == [q \in DOMAIN recvbuf |-> sendbufs[q]]

OverwriteRowZero(table, rank, row) == [table EXCEPT ![0] = row]
\* self.local_unknown_sizes[self.comm.rank, :] = ours[0, :]
OverwriteOwnRow(table, rank, row) == [table EXCEPT ![rank] = row]

NoSend == [sent |-> FALSE, row |-> <<>>]
NoOrdering == [app |-> <<>>, petsc |-> <<>>]

\* _get_flattened_sizes up to the point where the rank is inside Allgather
get_flattened_sizes_begin ==
    /\ \E r \in Ranks :
          /\ pc[r] = "idle"
          /\ local_unknown_sizes' =
                [local_unknown_sizes EXCEPT ![r] = ZerosTable(NRanks, NCols(vecs[r]))]
          /\ ours' = [ours EXCEPT ![r] = OursRow(vecs[r])]
          /\ comm' = [comm EXCEPT ![r] = [sent |-> TRUE, row |-> OursRow(vecs[r])]]
          /\ pc' = [pc EXCEPT ![r] = "gathering"]
    /\ UNCHANGED <<app_ordering, vecVars, xferVars, linVars>>

\* Allgather returns once every rank has entered it; the rank then rewrites
\* its own row and returns the table
get_flattened_sizes_end ==
    /\ \E r \in Ranks :
          /\ pc[r] = "gathering"
          /\ \A q \in Ranks : comm[q].sent
          /\ local_unknown_sizes' =
                [local_unknown_sizes EXCEPT ![r] =
                    OverwriteOwnRow(Allgather(local_unknown_sizes[r],
                                              [q \in Ranks |-> comm[q].row]),
                                    r, ours[r])]
          /\ pc' = [pc EXCEPT ![r] = "sized"]
    /\ UNCHANGED <<ours, comm, app_ordering, vecVars, xferVars, linVars>>

\* PetscImpl.create_app_ordering(varmanager) on a rank that has its size table
PetscImpl_create_app_ordering ==
    /\ \E r \in Ranks :
          /\ pc[r] = "sized"
          /\ app_ordering' =
                [app_ordering EXCEPT ![r] = create_app_ordering(local_unknown_sizes[r], r)]
          /\ pc' = [pc EXCEPT ![r] = "ordered"]
    /\ UNCHANGED <<ours, comm, local_unknown_sizes, vecVars, xferVars, linVars>>

\* every rank has set up its unknowns vecwrapper (which stores the noflats)
InitSizes ==
    /\ varmeta \in VarMetas
    /\ vecs = [r \in Ranks |-> SrcVecSetup(varmeta[r], TRUE)]
    /\ call = NoCall
    /\ pc = [r \in Ranks |-> "idle"]
    /\ ours = [r \in Ranks |-> <<>>]
    /\ comm = [r \in Ranks |-> NoSend]
    /\ local_unknown_sizes = [r \in Ranks |-> <<>>]
    /\ app_ordering = [r \in Ranks |-> NoOrdering]
    /\ IdleXfer
    /\ IdleLinear

NextSizes ==
    \/ get_flattened_sizes_begin
    \/ get_flattened_sizes_end
    \/ PetscImpl_create_app_ordering

SpecSizes == InitSizes /\ [][NextSizes]_vars

\* ---------------------------------------------- properties of SpecSizes
\* the flattenable variables in declared order
RECURSIVE FlatSeqUpTo(_)
FlatSeqUpTo(n) ==
    IF n = 0 THEN <<>>
    ELSE FlatSeqUpTo(n - 1) \o (IF varmeta[0][n - 1].noflat THEN <<>> ELSE <<n - 1>>)
FlatSeq == FlatSeqUpTo(NVars)

\* total flattened size over all ranks, from the variables' metadata
MetaTotal ==
    SumTo([r \in Ranks |->
              SumTo([n \in Names |-> varmeta[r][n].size], NVars)], NRanks)

\* C10: once every rank has completed _get_flattened_sizes, every rank's
\* table has one row per rank and one column per flattenable variable, and
\* its entry [q][i] is the local size on rank q of the i-th flattenable
\* variable in declared order.
C10_SizeTableAgrees ==
    (\A r \in Ranks : pc[r] \in {"sized", "ordered"}) =>
        \A r \in Ranks :
            /\ DOMAIN local_unknown_sizes[r] = Ranks
            /\ \A q \in Ranks :
                  /\ DOMAIN local_unknown_sizes[r][q] = 0..(Len(FlatSeq) - 1)
                  /\ \A i \in 0..(Len(FlatSeq) - 1) :
                        local_unknown_sizes[r][q][i] = varmeta[q][FlatSeq[i + 1]].size

\* C10 witness: all ranks are done, a non-flattenable variable is declared
\* before a flattenable one, and the flattenable one has different sizes on
\* rank 0 and rank 1.
C10_Witness ==
    /\ \A r \in Ranks : pc[r] \in {"sized", "ordered"}
    /\ \E n \in Names : varmeta[0][n].noflat
    /\ \E n \in Names : ~varmeta[0][n].noflat /\ varmeta[0][n].size # varmeta[1][n].size

AllApp == Concat([r \in Ranks |-> app_ordering[r].app], NRanks)
AllPetsc == Concat([r \in Ranks |-> app_ordering[r].petsc], NRanks)

\* C5: once every rank has built its ordering, the application-side and
\* canonical-side arrays of each rank have equal length, and over all ranks
\* each side lists every index of 0 .. total-1 exactly once.
C5_OrderingIsBijection ==
    (\A r \in Ranks : pc[r] = "ordered") =>
        /\ \A r \in Ranks : Len(app_ordering[r].app) = Len(app_ordering[r].petsc)
        /\ Len(AllApp) = MetaTotal
        /\ Range(AllApp) = 0..(MetaTotal - 1)
        /\ Len(AllPetsc) = MetaTotal
        /\ Range(AllPetsc) = 0..(MetaTotal - 1)

\* C5 witness: every rank has built its ordering, some variable has no
\* elements on rank 0, and the two sides differ on some rank.
C5_Witness ==
    /\ \A r \in Ranks : pc[r] = "ordered"
    /\ \E n \in Names : ~varmeta[0][n].noflat /\ varmeta[0][n].size = 0
    /\ \E r \in Ranks : app_ordering[r].app # app_ordering[r].petsc
    /\ MetaTotal >= 2

\* =====================================================================
\* SpecLinear: ParamComp.apply_linear
\* =====================================================================
\* vw.vec: the component's view, elements lo..hi-1 of the parent buffer
ViewVec(vw) == [i \in 0..(vw.hi - vw.lo - 1) |-> vw.buf[vw.lo + i]]

\* rhs_vec.vec[:] += sol_vec.vec[:]
AddInto(rhs_vec, sol_vec) ==
    [rhs_vec EXCEPT !.buf =
        [i \in DOMAIN rhs_vec.buf |->
            IF rhs_vec.lo <= i /\ i < rhs_vec.hi
            THEN rhs_vec.buf[i] + ViewVec(sol_vec)[i - rhs_vec.lo]
            ELSE rhs_vec.buf[i]]]

SolIsDunknownsInverted(mode) == mode # "fwd"
\* if mode=='fwd': sol_vec, rhs_vec = dunknowns, dresids
\* else:           sol_vec, rhs_vec = dresids, dunknowns
SolIsDunknowns(mode) == mode = "fwd"

\* the documented modes and one string that is neither
LinearModes == {"fwd", "rev", "auto"}

\* ParamComp.apply_linear(params, unknowns, dparams, dunknowns, dresids, mode)
apply_linear ==
    /\ calls < MaxCalls
    /\ \E mode \in LinearModes :
          /\ IF SolIsDunknowns(mode)
             THEN /\ dresids' = AddInto(dresids, dunknowns)
                  /\ UNCHANGED dunknowns
             ELSE /\ dunknowns' = AddInto(dunknowns, dresids)
                  /\ UNCHANGED dresids
          /\ lmode' = mode
    /\ calls' = calls + 1
    /\ UNCHANGED <<params, unknowns, dparams, xferVars, vecVars, sizesVars>>

Bufs == [0..(BufLen - 1) -> Vals]

\* the component's output occupies lo..hi-1 of the unknowns-shaped buffers;
\* a ParamComp has no parameters, so its params views are empty
InitLinear ==
    /\ \E lo \in 0..BufLen, hi \in 0..BufLen, c \in Vals :
          /\ lo <= hi
          /\ dunknowns \in {[buf |-> b, lo |-> lo, hi |-> hi] : b \in Bufs}
          /\ dresids \in {[buf |-> b, lo |-> lo, hi |-> hi] : b \in Bufs}
          /\ unknowns = [buf |-> [i \in 0..(BufLen - 1) |-> c], lo |-> lo, hi |-> hi]
          /\ params = [buf |-> [i \in 0..(BufLen - 1) |-> c], lo |-> 0, hi |-> 0]
          /\ dparams = [buf |-> [i \in 0..(BufLen - 1) |-> c], lo |-> 0, hi |-> 0]
    /\ lmode = "none"
    /\ calls = 0
    /\ IdleXfer
    /\ IdleVec
    /\ IdleSizes

NextLinear == apply_linear

SpecLinear == InitLinear /\ [][NextLinear]_vars

\* --------------------------------------------- properties of SpecLinear
\* rhs after the call is rhs before plus sol inside the component's slice and
\* rhs before outside it
AddedInSlice(rhs_after, rhs_before, sol) ==
    /\ rhs_after.lo = rhs_before.lo
    /\ rhs_after.hi = rhs_before.hi
    /\ \A i \in 0..(BufLen - 1) :
          rhs_after.buf[i] =
              IF rhs_before.lo <= i /\ i < rhs_before.hi
              THEN rhs_before.buf[i] + sol.buf[i]
              ELSE rhs_before.buf[i]

\* C9: in 'fwd' mode apply_linear adds dunknowns into dresids element by
\* element, in any other mode it adds dresids into dunknowns; the buffer in
\* the solution role, params, unknowns and dparams are unchanged, and no
\* element outside the component's slice of the right-hand side changes.
C9_ApplyLinearIsIdentity ==
    [][calls' # calls =>
          /\ lmode' = "fwd" =>
                AddedInSlice(dresids', dresids, dunknowns) /\ dunknowns' = dunknowns
          /\ lmode' # "fwd" =>
                AddedInSlice(dunknowns', dunknowns, dresids) /\ dresids' = dresids
          /\ params' = params
          /\ unknowns' = unknowns
          /\ dparams' = dparams
      ]_vars

\* C9 witness: a 'rev' call accumulated into an element of the component's
\* slice of dunknowns, a slice that does not cover the whole buffer.
C9_Witness ==
    /\ lmode = "rev"
    /\ dunknowns.hi - dunknowns.lo >= 1
    /\ dunknowns.hi - dunknowns.lo < BufLen
    /\ \E i \in dunknowns.lo..(dunknowns.hi - 1) : dunknowns.buf[i] > MaxVal

====
